---- MODULE Spec2Model ----
(***************************************************************************)
(* Grid-tie inverter supervisory control (libpower, src/system/on_grid.rs) *)
(* with its collaborators: the SOGI-PLL (src/pll/spll_1ph_sogi.rs), the PI *)
(* current controller (src/control/cntl_pi.rs) and the perturb-and-observe *)
(* MPPT tracker (src/mppt/perturb_and_observe.rs).                         *)
(*                                                                         *)
(* f32 quantities are fixed-point integers, rounded to nearest:            *)
(*   voltages, currents, SOGI states, phase error   1 V, 1 A               *)
(*   power                                          1 W                    *)
(*   times (timers, sample_time, periods)           1e-4 s                 *)
(*   angles, angular frequencies, frequencies       1e-2 rad, rad/s, Hz    *)
(*   sin/cos values, duty cycle, PI controller      1e-3                   *)
(*   current reference                              1e-3 A                 *)
(*   MPPT output voltage, voltage reference         1e-1 V                 *)
(* The model covers finite f32 values only; the one non-finite value that  *)
(* the supervisory code can produce from finite inputs, the result of the  *)
(* division by a zero grid_voltage_peak, is the value NaN below.           *)
(***************************************************************************)
EXTENDS Integers, Sequences, FiniteSets, TLC

\* A grid-tie inverter with the outputs of its last update(), and one
\* stand-alone instance of each component: a PLL with the position of the
\* caller inside calculate() and the last operation called on it, a PI
\* controller and an MPPT tracker, with the number of calls made on them.
VARIABLES inverter, outputs, spll, spll_pc, spll_op, cntl, tracker, calls

vars == <<inverter, outputs, spll, spll_pc, spll_op, cntl, tracker, calls>>

components == <<spll, spll_pc, spll_op, cntl, tracker, calls>>

(***************************************************************************)
(* Bounds of the model.                                                    *)
(***************************************************************************)
\* update() is called at most MaxTicks times in a behaviour.
MaxTicks == 112

(***************************************************************************)
(* Fixed-point arithmetic.                                                 *)
(***************************************************************************)
Abs(x) == IF x < 0 THEN -x ELSE x

Min(a, b) == IF a < b THEN a ELSE b

Max(a, b) == IF a > b THEN a ELSE b

\* x / d rounded to the nearest integer, ties away from zero (d > 0).
RDiv(x, d) == IF x >= 0 THEN (2 * x + d) \div (2 * d) ELSE -((2 * (-x) + d) \div (2 * d))

RECURSIVE GCD(_, _)
GCD(a, b) == IF b = 0 THEN a ELSE GCD(b, a % b)

RECURSIVE SqrtIter(_, _, _)
SqrtIter(n, lo, hi) ==
    IF lo >= hi THEN lo
    ELSE LET mid == (lo + hi + 1) \div 2
         IN IF mid * mid <= n THEN SqrtIter(n, mid, hi) ELSE SqrtIter(n, lo, mid - 1)

\* libm::sqrtf on a non-negative value.
sqrtf(n) == SqrtIter(n, 0, 46340)

\* One second in time units.
TimeDen == 10000

\* pi and 2*pi in 1e-2 rad.
PI_C == 314

TWO_PI == 628

\* Bhaskara's rational approximation of sin on [0, pi], in 1e-3.
SinHalf(x) == LET p == x * (PI_C - x) IN (16000 * p) \div (5 * PI_C * PI_C - 4 * p)

\* libm::sinf and libm::cosf of an angle in [0, 2*pi), result in 1e-3.
sinf(theta) == IF theta <= PI_C THEN SinHalf(theta) ELSE -SinHalf(theta - PI_C)

cosf(theta) == sinf((theta + PI_C \div 2) % TWO_PI)

\* x / (2*pi) where x is in 1e-2 units; quotient in the same units.
DivTwoPi(x) == RDiv(x, TWO_PI) * 100 + RDiv((x - RDiv(x, TWO_PI) * TWO_PI) * 100, TWO_PI)

\* The f32 value produced by 0.0 / 0.0 and by inf * 0.0.
NaN == 2000000000

\* The largest finite f32, above every value the model computes.
F32_MAX == 1999999999

\* f32::INFINITY: what f32 arithmetic gives on overflow.  A phase of this size
\* is left unchanged by the addition or subtraction of 2*pi.
Inf == 2000000001

IsFinite(x) == x \notin {NaN, Inf, -Inf}

\* The class of an f32 value: NaN, an infinity, or the sign of a finite value.
Sgn(x) == IF ~IsFinite(x) THEN x ELSE IF x > 0 THEN 1 ELSE IF x < 0 THEN -1 ELSE 0

\* IEEE 754 negation, addition and multiplication on classes of values:
\* inf - inf and 0 * inf are NaN, and NaN propagates.
XNeg(a) == IF a = NaN THEN NaN ELSE -a

XAdd(a, b) ==
    IF a = NaN \/ b = NaN THEN NaN
    ELSE IF ~IsFinite(a) THEN (IF b = -a THEN NaN ELSE a)
    ELSE IF ~IsFinite(b) THEN b
    ELSE a + b

XMul(a, b) ==
    IF a = NaN \/ b = NaN THEN NaN
    ELSE IF IsFinite(a) /\ IsFinite(b) THEN a * b
    ELSE IF a = 0 \/ b = 0 THEN NaN
    ELSE IF (a > 0) = (b > 0) THEN Inf
    ELSE -Inf

(***************************************************************************)
(* SPLL: single-phase SOGI phase-locked loop.                              *)
(***************************************************************************)
\* Default SOGI gain 1.414, in 1e-3.
K_SOGI == 1414

\* Default PI gains of the PLL.
PLL_KP == 100

PLL_KI == 5000

SPLL_new(nominal_freq, ts) ==
    LET wn == RDiv(TWO_PI * nominal_freq, 100)
    IN [nominal_frequency |-> nominal_freq, ts |-> ts,
        kp |-> PLL_KP, ki |-> PLL_KI, pi_integrator |-> 0,
        k_sogi |-> K_SOGI, wn |-> wn,
        x1 |-> 0, x2 |-> 0,
        theta |-> 0, frequency |-> nominal_freq, omega |-> wn,
        v_alpha |-> 0, v_beta |-> 0,
        phase_error |-> 0, delta_omega |-> 0]

\* The two wrap-around loops of calculate: a finite theta is brought into
\* [0, 2*pi) by repeated subtraction, then repeated addition, of 2*pi.  NaN
\* fails both loop tests and is left as it is; an infinite theta passes one of
\* them and is left unchanged by the loop body.
wrap_phase(theta) == IF IsFinite(theta) THEN theta % TWO_PI ELSE theta

\* Whether both loops exit: an iteration that leaves theta unchanged is
\* followed by the same iteration again.
wrap_exits(theta) == theta \notin {Inf, -Inf}

\* ts as the fraction TsNum / TsDen of a second, in lowest terms.
TsNum(ts) == ts \div GCD(ts, TimeDen)

TsDen(ts) == TimeDen \div GCD(ts, TimeDen)

\* The SOGI difference equations and the SOGI outputs.
SPLL_sogi(pll, input) ==
    LET kw      == RDiv(pll.k_sogi * pll.wn, 1000)
        x1_next == IF IsFinite(input) /\ IsFinite(pll.x1) /\ IsFinite(pll.x2)
                   THEN pll.x1 + RDiv((kw * (input - pll.x1) - pll.wn * pll.x2) * TsNum(pll.ts),
                                      100 * TsDen(pll.ts))
                   ELSE XAdd(Sgn(pll.x1),
                             XAdd(XMul(Sgn(kw), XAdd(Sgn(input), XNeg(Sgn(pll.x1)))),
                                  XNeg(Sgn(pll.x2))))
        x2_next == IF IsFinite(pll.x1) /\ IsFinite(pll.x2)
                   THEN pll.x2 + RDiv(TsNum(pll.ts) * pll.wn * pll.x1, 100 * TsDen(pll.ts))
                   ELSE XAdd(Sgn(pll.x2), Sgn(pll.x1))
    IN [pll EXCEPT !.x1 = x1_next, !.x2 = x2_next,
                   !.v_alpha = x1_next,
                   !.v_beta = IF IsFinite(x2_next) THEN RDiv(kw * x2_next, 100)
                              ELSE XMul(Sgn(kw), x2_next)]

\* sinf and cosf of any f32: NaN for a NaN or infinite angle.
sin_theta(theta) == IF IsFinite(theta) THEN sinf(theta) ELSE NaN

cos_theta(theta) == IF IsFinite(theta) THEN cosf(theta) ELSE NaN

\* Phase error: v_alpha * sin(theta) - v_beta * cos(theta).
SPLL_phase_error(pll) ==
    [pll EXCEPT !.phase_error =
        IF IsFinite(pll.v_alpha) /\ IsFinite(pll.v_beta) /\ IsFinite(pll.theta)
        THEN RDiv(pll.v_alpha * sinf(pll.theta) - pll.v_beta * cosf(pll.theta), 1000)
        ELSE XAdd(XMul(Sgn(pll.v_alpha), Sgn(sin_theta(pll.theta))),
                  XNeg(XMul(Sgn(pll.v_beta), Sgn(cos_theta(pll.theta)))))]

\* The integrator of the PI loop filter.
SPLL_integrate(pll) ==
    [pll EXCEPT !.pi_integrator =
        IF IsFinite(pll.pi_integrator) /\ IsFinite(pll.phase_error)
        THEN pll.pi_integrator + RDiv(pll.ki * pll.phase_error * 100 * TsNum(pll.ts),
                                      TsDen(pll.ts))
        ELSE XAdd(Sgn(pll.pi_integrator), XMul(Sgn(pll.ki), Sgn(pll.phase_error)))]

\* The frequency deviation: output of the PI loop filter.
SPLL_deviation(pll) ==
    [pll EXCEPT !.delta_omega =
        IF IsFinite(pll.pi_integrator) /\ IsFinite(pll.phase_error)
        THEN pll.kp * pll.phase_error * 100 + pll.pi_integrator
        ELSE XAdd(XMul(Sgn(pll.kp), Sgn(pll.phase_error)), Sgn(pll.pi_integrator))]

\* The PI loop filter: integrator, then frequency deviation.
SPLL_pi(pll) == SPLL_deviation(SPLL_integrate(pll))

\* The angular frequency and the frequency estimates.
SPLL_omega(pll) ==
    [pll EXCEPT !.omega = IF IsFinite(pll.delta_omega) THEN pll.wn + pll.delta_omega
                          ELSE pll.delta_omega,
                !.frequency = IF IsFinite(pll.delta_omega)
                              THEN DivTwoPi(pll.wn + pll.delta_omega)
                              ELSE pll.delta_omega]

\* The phase estimate, advanced by omega * ts and wrapped.
SPLL_advance(pll) ==
    [pll EXCEPT !.theta =
        IF IsFinite(pll.omega) /\ IsFinite(pll.theta)
        THEN wrap_phase(pll.theta + RDiv(pll.omega * TsNum(pll.ts), TsDen(pll.ts)))
        ELSE wrap_phase(XAdd(Sgn(pll.theta), Sgn(pll.omega)))]

\* Angular frequency, frequency and phase estimates.
SPLL_estimate(pll) == SPLL_advance(SPLL_omega(pll))

SPLL_calculate(pll, input) == SPLL_estimate(SPLL_pi(SPLL_phase_error(SPLL_sogi(pll, input))))

\* reset() that leaves the frequency estimates as they are.
SPLL_reset_keeps_estimates(pll) ==
    [pll EXCEPT !.pi_integrator = 0, !.x1 = 0, !.x2 = 0, !.theta = 0,
                !.v_alpha = 0, !.v_beta = 0, !.phase_error = 0, !.delta_omega = 0]

SPLL_reset(pll) ==
    [pll EXCEPT !.pi_integrator = 0, !.x1 = 0, !.x2 = 0, !.theta = 0,
                !.frequency = pll.nominal_frequency, !.omega = pll.wn,
                !.v_alpha = 0, !.v_beta = 0, !.phase_error = 0, !.delta_omega = 0]

(***************************************************************************)
(* ControllerPI: PI controller with output saturation and anti-windup.     *)
(* Gains are in 1e-1, every other field in 1e-3.                           *)
(***************************************************************************)
ControllerPI_new ==
    [ref_input |-> 0, fdbk |-> 0, out |-> 0, kp |-> 2, ki |-> 1,
     u_max |-> F32_MAX, u_min |-> -F32_MAX,
     up |-> 0, ui |-> 0, v1 |-> 0, i1 |-> 0, w1 |-> 0]

ControllerPI_set_gains(c, kp, ki) == [c EXCEPT !.kp = kp, !.ki = ki]

ControllerPI_set_limits(c, u_min, u_max) == [c EXCEPT !.u_min = u_min, !.u_max = u_max]

\* The saturation without its lower limit.
Saturate_upper_only(v, u_min, u_max) == IF v = NaN THEN u_max ELSE Min(v, u_max)

\* f32::min then f32::max of the saturation: a NaN operand is ignored.
Saturate(v, u_min, u_max) == IF v = NaN THEN Max(u_max, u_min) ELSE Max(Min(v, u_max), u_min)

\* calculate() on finite values.
ControllerPI_calculate_finite(c, ref_input, fdbk) ==
    LET error == ref_input - fdbk
        up    == RDiv(c.kp * error, 10)
        ui    == c.i1 + RDiv(c.ki * error, 10) + c.w1
        out   == Saturate(up + ui, c.u_min, c.u_max)
    IN [c EXCEPT !.ref_input = ref_input, !.fdbk = fdbk, !.up = up, !.ui = ui,
                 !.v1 = up + ui, !.out = out, !.w1 = out - (up + ui), !.i1 = ui]

\* calculate() with a NaN or infinite input or stored term: the terms by
\* their classes; the output is one of the limits.
ControllerPI_calculate_nonfinite(c, ref_input, fdbk) ==
    LET error == XAdd(Sgn(ref_input), XNeg(Sgn(fdbk)))
        up    == XMul(Sgn(c.kp), error)
        ui    == XAdd(XAdd(Sgn(c.i1), XMul(Sgn(c.ki), error)), Sgn(c.w1))
        out   == Saturate(XAdd(up, ui), c.u_min, c.u_max)
    IN [c EXCEPT !.ref_input = ref_input, !.fdbk = fdbk, !.up = up, !.ui = ui,
                 !.v1 = XAdd(up, ui), !.out = out,
                 !.w1 = XAdd(Sgn(out), XNeg(XAdd(up, ui))), !.i1 = ui]

ControllerPI_calculate(c, ref_input, fdbk) ==
    IF IsFinite(ref_input) /\ IsFinite(fdbk) /\ IsFinite(c.i1) /\ IsFinite(c.w1)
    THEN ControllerPI_calculate_finite(c, ref_input, fdbk)
    ELSE ControllerPI_calculate_nonfinite(c, ref_input, fdbk)

ControllerPI_get_output(c) == c.out

\* reset() saving the integrator value into i1 before clearing it.
ControllerPI_reset_keeps_integrator(c) ==
    [c EXCEPT !.up = 0, !.ui = 0, !.v1 = 0, !.i1 = c.ui, !.w1 = 0, !.out = 0]

ControllerPI_reset(c) ==
    [c EXCEPT !.up = 0, !.ui = 0, !.v1 = 0, !.i1 = 0, !.w1 = 0, !.out = 0]

(***************************************************************************)
(* MPPT: perturb-and-observe tracker.  Output voltage and step in 1e-1 V.  *)
(***************************************************************************)
MPPT_new ==
    [pv_i |-> 0, pv_v |-> 0, pv_v_prev |-> 0, pv_power |-> 0, pv_power_prev |-> 0,
     delta_p_min |-> 0, mppt_v_out_action |-> "INCREMENT",
     mppt_v_out_max |-> 0, mppt_v_out_min |-> 0, step_size |-> 0,
     mppt_v_out |-> 0, mppt_enable |-> TRUE, mppt_first |-> TRUE]

MPPT_calculate(t, pv_i, pv_v) ==
    IF t.mppt_first
    THEN [t EXCEPT !.pv_i = pv_i, !.pv_v = pv_v, !.pv_power = pv_i * pv_v,
                   !.pv_v_prev = pv_v, !.pv_power_prev = pv_i * pv_v,
                   !.mppt_first = FALSE]
    ELSE LET power  == pv_i * pv_v
             moved  == power - t.pv_power_prev > t.delta_p_min
             action == IF ~moved THEN t.mppt_v_out_action
                       ELSE IF pv_v > t.pv_v_prev THEN "INCREMENT" ELSE "DECREMENT"
             v_out  == IF ~moved THEN t.mppt_v_out
                       ELSE IF action = "INCREMENT"
                            THEN IF t.mppt_v_out + t.step_size > t.mppt_v_out_max
                                 THEN t.mppt_v_out_max
                                 ELSE t.mppt_v_out + t.step_size
                            ELSE IF t.mppt_v_out - t.step_size < t.mppt_v_out_min
                                 THEN t.mppt_v_out_min
                                 ELSE t.mppt_v_out - t.step_size
         IN [t EXCEPT !.pv_i = pv_i, !.pv_v = pv_v, !.pv_power = power,
                      !.mppt_v_out_action = action, !.mppt_v_out = v_out,
                      !.pv_v_prev = pv_v, !.pv_power_prev = power]

(***************************************************************************)
(* GridTieInverter.                                                        *)
(***************************************************************************)
FaultType == {"GridOverVoltage", "GridUnderVoltage", "GridFrequencyError",
              "PVOverVoltage", "PVUnderVoltage", "OverCurrent", "Islanding",
              "GridStartupFault"}

Idle == [tag |-> "Idle", fault |-> "None"]

Startup == [tag |-> "Startup", fault |-> "None"]

PLLSync == [tag |-> "PLLSync", fault |-> "None"]

PowerFlow == [tag |-> "PowerFlow", fault |-> "None"]

Fault(fault_type) == [tag |-> "Fault", fault |-> fault_type]

InverterState == {Idle, Startup, PLLSync, PowerFlow} \cup {Fault(k) : k \in FaultType}

\* InverterConfig::default(): 230 V, 50 Hz, 20 A, 45 V, 15 V, 10 %, 1 Hz,
\* 100 us, 100 ms, 500 ms.
DefaultConfig ==
    [grid_voltage_nominal |-> 230, grid_frequency_nominal |-> 5000,
     max_output_current |-> 20, pv_voltage_max |-> 45, pv_voltage_min |-> 15,
     grid_voltage_tolerance |-> 10, grid_frequency_tolerance |-> 100,
     sample_time |-> 1, mppt_period |-> 1000, pll_settling_time |-> 5000]

\* A slowly sampled, widely toleranced configuration: 0.13 Hz nominal, 1 s
\* sample time, +-100 % voltage and +-200 kHz frequency tolerance, MPPT every 2 s.
WideConfig ==
    [DefaultConfig EXCEPT !.grid_frequency_nominal = 13, !.grid_voltage_tolerance = 100,
                          !.grid_frequency_tolerance = 20000000, !.sample_time = 10000,
                          !.mppt_period = 20000]

\* As WideConfig, with a +-0.05 Hz frequency tolerance.
TightFrequencyConfig == [WideConfig EXCEPT !.grid_frequency_tolerance = 5]

\* As WideConfig, sampled every 5 ms, with a 10 ms PLL settling time.
FastConfig == [WideConfig EXCEPT !.sample_time = 50, !.pll_settling_time = 100]

Configs == {DefaultConfig, WideConfig, TightFrequencyConfig, FastConfig}

DefaultMeasurements == [pv_voltage |-> 0, pv_current |-> 0, grid_voltage |-> 0, output_current |-> 0]

DefaultOutputs == [duty_cycle |-> 0, grid_relay |-> FALSE, led_power |-> FALSE, led_fault |-> FALSE]

\* The measurements fed to update(): a quiet grid, the peak of the nominal
\* 230 V waveform, a 700 V surge, each with an in-range PV array; an output
\* over-current; and the PV array below and above its range.
MeasurementSet ==
    {[pv_voltage |-> 30, pv_current |-> 5, grid_voltage |-> 0, output_current |-> 0],
     [pv_voltage |-> 30, pv_current |-> 5, grid_voltage |-> 325, output_current |-> 0],
     [pv_voltage |-> 30, pv_current |-> 5, grid_voltage |-> 700, output_current |-> 0],
     [pv_voltage |-> 30, pv_current |-> 5, grid_voltage |-> 325, output_current |-> 25],
     [pv_voltage |-> 10, pv_current |-> 5, grid_voltage |-> 325, output_current |-> 25],
     [pv_voltage |-> 50, pv_current |-> 5, grid_voltage |-> 700, output_current |-> 25]}

\* MPPT step of 0.5 V, PI gains 0.5 and 100, duty-cycle limits 0 and 0.95.
MPPT_STEP == 5

CC_KP == 5

CC_KI == 1000

DUTY_MAX == 950

new(config) ==
    [config |-> config,
     state |-> Idle,
     state_timer |-> 0,
     mppt |-> [MPPT_new EXCEPT !.step_size = MPPT_STEP,
                               !.mppt_v_out_max = config.pv_voltage_max * 10,
                               !.mppt_v_out_min = config.pv_voltage_min * 10],
     pll |-> SPLL_new(config.grid_frequency_nominal, config.sample_time),
     current_controller |->
         ControllerPI_set_limits(ControllerPI_set_gains(ControllerPI_new, CC_KP, CC_KI),
                                 0, DUTY_MAX),
     measurements |-> DefaultMeasurements,
     grid_voltage_peak |-> 0,
     grid_frequency |-> 0,
     current_reference |-> 0,
     voltage_reference |-> 0,
     power_limit |-> 0,
     time_elapsed |-> 0,
     mppt_timer |-> 0,
     startup_counter |-> 0,
     fault_counter |-> 0,
     grid_voltage_ok |-> FALSE,
     grid_frequency_ok |-> FALSE,
     pv_voltage_ok |-> FALSE,
     anti_islanding_ok |-> TRUE]

get_state(self) == self.state

get_grid_frequency(self) == self.grid_frequency

\* A transition that leaves the state timer running.
transition_to_state_keeps_timer(self, new_state) == [self EXCEPT !.state = new_state]

transition_to_state(self, new_state) == [self EXCEPT !.state = new_state, !.state_timer = 0]

\* A transition into a fault state that is not counted.
transition_to_fault_uncounted(self, fault_type) ==
    [self EXCEPT !.state = Fault(fault_type), !.state_timer = 0]

transition_to_fault(self, fault_type) ==
    [self EXCEPT !.state = Fault(fault_type), !.state_timer = 0,
                 !.fault_counter = self.fault_counter + 1]

\* Anti-islanding threshold: 50 V of grid voltage peak.
ISLANDING_PEAK == 50

\* grid_voltage_peak / SQRT_2 and the voltage band, all in 1e-1 V.
grid_v_rms(self) == RDiv(self.grid_voltage_peak * 10000, 1414)

\* A voltage band without a lower limit.
v_min_none(self) == 0

v_min(self) == RDiv(self.config.grid_voltage_nominal * 10 * (100 - self.config.grid_voltage_tolerance), 100)

v_max(self) == RDiv(self.config.grid_voltage_nominal * 10 * (100 + self.config.grid_voltage_tolerance), 100)

f_min(self) == self.config.grid_frequency_nominal - self.config.grid_frequency_tolerance

f_max(self) == self.config.grid_frequency_nominal + self.config.grid_frequency_tolerance

\* check_protections() escalating to Fault from every state, not only PowerFlow.
check_protections_any_state(self) ==
    LET c  == self.config
        m  == self.measurements
        s1 == [self EXCEPT
                 !.grid_voltage_ok = grid_v_rms(self) >= v_min(self) /\ grid_v_rms(self) <= v_max(self),
                 !.grid_frequency_ok = self.grid_frequency >= f_min(self) /\ self.grid_frequency <= f_max(self),
                 !.pv_voltage_ok = m.pv_voltage >= c.pv_voltage_min /\ m.pv_voltage <= c.pv_voltage_max,
                 !.anti_islanding_ok = self.grid_voltage_peak > ISLANDING_PEAK]
    IN IF ~s1.grid_voltage_ok
       THEN IF grid_v_rms(self) > v_max(self)
            THEN transition_to_fault(s1, "GridOverVoltage")
            ELSE transition_to_fault(s1, "GridUnderVoltage")
       ELSE IF ~s1.grid_frequency_ok
       THEN transition_to_fault(s1, "GridFrequencyError")
       ELSE IF ~s1.pv_voltage_ok
       THEN IF m.pv_voltage > c.pv_voltage_max
            THEN transition_to_fault(s1, "PVOverVoltage")
            ELSE transition_to_fault(s1, "PVUnderVoltage")
       ELSE IF ~s1.anti_islanding_ok
       THEN transition_to_fault(s1, "Islanding")
       ELSE IF Abs(m.output_current) > c.max_output_current
       THEN transition_to_fault(s1, "OverCurrent")
       ELSE s1

\* check_protections() testing the PV voltage before the grid.
check_protections_pv_first(self) ==
    LET c  == self.config
        m  == self.measurements
        s1 == [self EXCEPT
                 !.grid_voltage_ok = grid_v_rms(self) >= v_min(self) /\ grid_v_rms(self) <= v_max(self),
                 !.grid_frequency_ok = self.grid_frequency >= f_min(self) /\ self.grid_frequency <= f_max(self),
                 !.pv_voltage_ok = m.pv_voltage >= c.pv_voltage_min /\ m.pv_voltage <= c.pv_voltage_max,
                 !.anti_islanding_ok = self.grid_voltage_peak > ISLANDING_PEAK]
    IN IF s1.state = PowerFlow
       THEN IF ~s1.pv_voltage_ok
            THEN IF m.pv_voltage > c.pv_voltage_max
                 THEN transition_to_fault(s1, "PVOverVoltage")
                 ELSE transition_to_fault(s1, "PVUnderVoltage")
            ELSE IF ~s1.grid_voltage_ok
            THEN IF grid_v_rms(self) > v_max(self)
                 THEN transition_to_fault(s1, "GridOverVoltage")
                 ELSE transition_to_fault(s1, "GridUnderVoltage")
            ELSE IF ~s1.grid_frequency_ok
            THEN transition_to_fault(s1, "GridFrequencyError")
            ELSE IF ~s1.anti_islanding_ok
            THEN transition_to_fault(s1, "Islanding")
            ELSE IF Abs(m.output_current) > c.max_output_current
            THEN transition_to_fault(s1, "OverCurrent")
            ELSE s1
       ELSE s1

check_protections(self) ==
    LET c  == self.config
        m  == self.measurements
        s1 == [self EXCEPT
                 !.grid_voltage_ok = grid_v_rms(self) >= v_min(self) /\ grid_v_rms(self) <= v_max(self),
                 !.grid_frequency_ok = self.grid_frequency >= f_min(self) /\ self.grid_frequency <= f_max(self),
                 !.pv_voltage_ok = m.pv_voltage >= c.pv_voltage_min /\ m.pv_voltage <= c.pv_voltage_max,
                 !.anti_islanding_ok = self.grid_voltage_peak > ISLANDING_PEAK]
    IN IF s1.state = PowerFlow
       THEN IF ~s1.grid_voltage_ok
            THEN IF grid_v_rms(self) > v_max(self)
                 THEN transition_to_fault(s1, "GridOverVoltage")
                 ELSE transition_to_fault(s1, "GridUnderVoltage")
            ELSE IF ~s1.grid_frequency_ok
            THEN transition_to_fault(s1, "GridFrequencyError")
            ELSE IF ~s1.pv_voltage_ok
            THEN IF m.pv_voltage > c.pv_voltage_max
                 THEN transition_to_fault(s1, "PVOverVoltage")
                 ELSE transition_to_fault(s1, "PVUnderVoltage")
            ELSE IF ~s1.anti_islanding_ok
            THEN transition_to_fault(s1, "Islanding")
            ELSE IF Abs(m.output_current) > c.max_output_current
            THEN transition_to_fault(s1, "OverCurrent")
            ELSE s1
       ELSE s1

state_idle(self) ==
    IF self.grid_voltage_ok /\ self.pv_voltage_ok
    THEN transition_to_state(self, Startup)
    ELSE self

\* Startup: first-entry window 0.01 s, 100 good samples, timeout 1 s.
FIRST_ENTRY_TIME == 100

STARTUP_SAMPLES == 100

STARTUP_TIMEOUT == 10000

\* state_startup() with the timeout tested on every tick, good or bad.
state_startup_timeout_first(self) ==
    LET s1 == IF self.state_timer < FIRST_ENTRY_TIME
              THEN [self EXCEPT !.current_controller = ControllerPI_reset(self.current_controller),
                                !.pll = SPLL_reset(self.pll),
                                !.startup_counter = 0]
              ELSE self
    IN IF s1.state_timer > STARTUP_TIMEOUT
       THEN transition_to_fault([s1 EXCEPT !.startup_counter = 0], "GridStartupFault")
       ELSE IF s1.grid_voltage_ok /\ s1.grid_frequency_ok
       THEN LET s2 == [s1 EXCEPT !.startup_counter = s1.startup_counter + 1]
            IN IF s2.startup_counter > STARTUP_SAMPLES
               THEN transition_to_state(s2, PLLSync)
               ELSE s2
       ELSE [s1 EXCEPT !.startup_counter = 0]

state_startup(self) ==
    LET s1 == IF self.state_timer < FIRST_ENTRY_TIME
              THEN [self EXCEPT !.current_controller = ControllerPI_reset(self.current_controller),
                                !.pll = SPLL_reset(self.pll),
                                !.startup_counter = 0]
              ELSE self
    IN IF s1.grid_voltage_ok /\ s1.grid_frequency_ok
       THEN LET s2 == [s1 EXCEPT !.startup_counter = s1.startup_counter + 1]
            IN IF s2.startup_counter > STARTUP_SAMPLES
               THEN transition_to_state(s2, PLLSync)
               ELSE s2
       ELSE LET s2 == [s1 EXCEPT !.startup_counter = 0]
            IN IF s2.state_timer > STARTUP_TIMEOUT
               THEN transition_to_fault(s2, "GridStartupFault")
               ELSE s2

\* The peak estimate sqrtf(v_alpha^2 + v_beta^2) and the frequency read back
\* from the PLL.
grid_estimate(self) ==
    [self EXCEPT !.grid_frequency = self.pll.frequency,
                 !.grid_voltage_peak = sqrtf(self.pll.v_alpha * self.pll.v_alpha
                                             + self.pll.v_beta * self.pll.v_beta)]

\* The PLL step and the estimates, as PLLSync and PowerFlow both start.
run_pll(self) ==
    grid_estimate([self EXCEPT !.pll = SPLL_calculate(self.pll, self.measurements.grid_voltage)])

\* The settling check of PLLSync without the test of grid_frequency_ok.
pll_settled_any_frequency(self) ==
    IF self.state_timer > self.config.pll_settling_time
    THEN transition_to_state(
             [self EXCEPT !.mppt = MPPT_calculate(self.mppt, self.measurements.pv_current,
                                                  self.measurements.pv_voltage),
                          !.voltage_reference = self.measurements.pv_voltage * 10],
             PowerFlow)
    ELSE self

\* The settling check of PLLSync; entering PowerFlow seeds the MPPT tracker.
pll_settled(self) ==
    IF self.state_timer > self.config.pll_settling_time /\ self.grid_frequency_ok
    THEN transition_to_state(
             [self EXCEPT !.mppt = MPPT_calculate(self.mppt, self.measurements.pv_current,
                                                  self.measurements.pv_voltage),
                          !.voltage_reference = self.measurements.pv_voltage * 10],
             PowerFlow)
    ELSE self

state_pll_sync(self) == pll_settled(run_pll(self))

\* MPPT at its slower rate.
run_mppt(self) ==
    IF self.mppt_timer >= self.config.mppt_period
    THEN LET t == MPPT_calculate(self.mppt, self.measurements.pv_current,
                                 self.measurements.pv_voltage)
         IN [self EXCEPT !.mppt_timer = 0, !.mppt = t, !.voltage_reference = t.mppt_v_out]
    ELSE self

\* 95 % efficiency assumption, in percent.
EFFICIENCY == 95

\* i_peak * sinf(phase) with i_peak = 2 * power_limit / grid_voltage_peak, in 1e-3 A.
\* A zero peak gives 0/0 = NaN, or an infinite i_peak whose product with the sine
\* is infinite (of magnitude above every limit) or, for a zero sine, NaN.
reference_current(power_limit, peak, phase) ==
    IF peak # 0
    THEN RDiv(RDiv(2 * power_limit * 1000, peak) * sinf(phase), 1000)
    ELSE IF power_limit = 0 \/ sinf(phase) = 0 THEN NaN
    ELSE IF (power_limit > 0) = (sinf(phase) > 0) THEN F32_MAX
    ELSE -F32_MAX

\* The power limit and the sinusoidal current reference.
generate_reference(self) ==
    LET power_limit == RDiv(self.measurements.pv_voltage * self.measurements.pv_current
                            * EFFICIENCY, 100)
    IN [self EXCEPT !.power_limit = power_limit,
                    !.current_reference =
                        reference_current(power_limit, self.grid_voltage_peak, self.pll.theta)]

\* The clamp to +-max_output_current; no comparison with NaN holds.
limit_reference(self) ==
    IF self.current_reference = NaN THEN self
    ELSE IF self.current_reference > self.config.max_output_current * 1000
    THEN [self EXCEPT !.current_reference = self.config.max_output_current * 1000]
    ELSE IF self.current_reference < -(self.config.max_output_current * 1000)
    THEN [self EXCEPT !.current_reference = -(self.config.max_output_current * 1000)]
    ELSE self

state_power_flow(self) == limit_reference(generate_reference(run_mppt(run_pll(self))))

\* Minimum dwell in Fault: 2 s.
FAULT_DWELL == 20000

\* Recovery on dwell-time expiry alone.
can_recover_always(self) == TRUE

\* Recovery that waits for every flag, whatever the fault type.
can_recover_needs_flags(self) ==
    self.grid_voltage_ok /\ self.grid_frequency_ok /\ self.pv_voltage_ok

can_recover(self) ==
    CASE self.state.fault \in {"GridOverVoltage", "GridUnderVoltage"} -> self.grid_voltage_ok
      [] self.state.fault = "GridFrequencyError" -> self.grid_frequency_ok
      [] self.state.fault \in {"PVOverVoltage", "PVUnderVoltage"} -> self.pv_voltage_ok
      [] OTHER -> TRUE

\* state_fault() without the minimum dwell.
state_fault_no_dwell(self) ==
    IF can_recover(self)
    THEN transition_to_state(self, Idle)
    ELSE self

\* state_fault() clearing the fault count when it recovers.
state_fault_clears_counter(self) ==
    IF self.state_timer > FAULT_DWELL /\ can_recover(self)
    THEN transition_to_state([self EXCEPT !.fault_counter = 0], Idle)
    ELSE self

state_fault(self) ==
    IF self.state_timer > FAULT_DWELL /\ can_recover(self)
    THEN transition_to_state(self, Idle)
    ELSE self

\* generate_outputs() without the clamp of the PowerFlow duty cycle.
generate_outputs_unclamped(self) ==
    IF self.state = PowerFlow
    THEN LET m  == self.measurements
             cc == ControllerPI_calculate(self.current_controller, self.current_reference,
                                          m.output_current * 1000)
             feedforward == IF m.pv_voltage > 0
                            THEN RDiv(Abs(m.grid_voltage) * 1000, m.pv_voltage)
                            ELSE 0
         IN [self |-> [self EXCEPT !.current_controller = cc],
             outputs |-> [duty_cycle |-> cc.out + feedforward,
                          grid_relay |-> TRUE, led_power |-> TRUE, led_fault |-> FALSE]]
    ELSE [self |-> self,
          outputs |-> [duty_cycle |-> 0, grid_relay |-> FALSE,
                       led_power |-> self.state \in {Startup, PLLSync},
                       led_fault |-> self.state \notin {Idle, Startup, PLLSync}]]

generate_outputs(self) ==
    CASE self.state = Idle ->
           [self |-> self,
            outputs |-> [duty_cycle |-> 0, grid_relay |-> FALSE, led_power |-> FALSE, led_fault |-> FALSE]]
      [] self.state = Startup ->
           [self |-> self,
            outputs |-> [duty_cycle |-> 0, grid_relay |-> FALSE, led_power |-> TRUE, led_fault |-> FALSE]]
      [] self.state = PLLSync ->
           [self |-> self,
            outputs |-> [duty_cycle |-> 0, grid_relay |-> TRUE, led_power |-> TRUE, led_fault |-> FALSE]]
      [] self.state = PowerFlow ->
           LET m  == self.measurements
               cc == ControllerPI_calculate(self.current_controller, self.current_reference,
                                            m.output_current * 1000)
               feedforward == IF m.pv_voltage > 0
                              THEN RDiv(Abs(m.grid_voltage) * 1000, m.pv_voltage)
                              ELSE 0
           IN [self |-> [self EXCEPT !.current_controller = cc],
               outputs |-> [duty_cycle |-> Max(Min(cc.out + feedforward, DUTY_MAX), 0),
                            grid_relay |-> TRUE, led_power |-> TRUE, led_fault |-> FALSE]]
      [] OTHER ->
           [self |-> self,
            outputs |-> [duty_cycle |-> 0, grid_relay |-> FALSE, led_power |-> FALSE, led_fault |-> TRUE]]

\* The state handler update() dispatches to.
run_state(self) ==
    CASE self.state = Idle -> state_idle(self)
      [] self.state = Startup -> state_startup(self)
      [] self.state = PLLSync -> state_pll_sync(self)
      [] self.state = PowerFlow -> state_power_flow(self)
      [] OTHER -> state_fault(self)

\* update() generating the outputs before the state handler has run.
update_outputs_first(self, measurements) ==
    LET ts == self.config.sample_time
        s0 == [self EXCEPT !.measurements = measurements,
                           !.time_elapsed = self.time_elapsed + ts,
                           !.state_timer = self.state_timer + ts,
                           !.mppt_timer = self.mppt_timer + ts]
        r  == generate_outputs(check_protections(s0))
    IN [self |-> run_state(r.self), outputs |-> r.outputs]

\* update() running the handler of the state the tick started in.
update_handler_of_entry_state(self, measurements) ==
    LET ts == self.config.sample_time
        s0 == [self EXCEPT !.measurements = measurements,
                           !.time_elapsed = self.time_elapsed + ts,
                           !.state_timer = self.state_timer + ts,
                           !.mppt_timer = self.mppt_timer + ts]
        s1 == check_protections(s0)
    IN generate_outputs(IF s0.state = PowerFlow THEN state_power_flow(s1) ELSE run_state(s1))

update(self, measurements) ==
    LET ts == self.config.sample_time
        s0 == [self EXCEPT !.measurements = measurements,
                           !.time_elapsed = self.time_elapsed + ts,
                           !.state_timer = self.state_timer + ts,
                           !.mppt_timer = self.mppt_timer + ts]
    IN generate_outputs(run_state(check_protections(s0)))

\* reset() clearing the cached grid estimates as well.
reset_clears_estimates(self) ==
    [self EXCEPT !.state = Idle, !.state_timer = 0,
                 !.current_controller = ControllerPI_reset(self.current_controller),
                 !.pll = SPLL_reset(self.pll),
                 !.startup_counter = 0, !.fault_counter = 0,
                 !.grid_voltage_peak = 0, !.grid_frequency = 0]

reset(self) ==
    [self EXCEPT !.state = Idle, !.state_timer = 0,
                 !.current_controller = ControllerPI_reset(self.current_controller),
                 !.pll = SPLL_reset(self.pll),
                 !.startup_counter = 0, !.fault_counter = 0]

get_diagnostics(self) ==
    <<RDiv(self.grid_voltage_peak * 10000, 1414), self.grid_frequency,
      self.measurements.pv_voltage * self.measurements.pv_current,
      self.voltage_reference, self.fault_counter>>

(***************************************************************************)
(* The state machine: one inverter, constructed from one of the            *)
(* configurations, driven by update() and reset().                         *)
(***************************************************************************)
\* The components as constructed, with no call made yet.
ComponentsNew ==
    /\ spll = SPLL_new(DefaultConfig.grid_frequency_nominal, DefaultConfig.sample_time)
    /\ spll_pc = "ready"
    /\ spll_op = "new"
    /\ cntl = ControllerPI_new
    /\ tracker = MPPT_new
    /\ calls = 0

Init ==
    /\ \E config \in Configs : inverter = new(config)
    /\ outputs = DefaultOutputs
    /\ ComponentsNew

\* Number of update() calls so far.
Ticks == inverter.time_elapsed \div inverter.config.sample_time

UpdateWith(measurement_set) ==
    /\ Ticks < MaxTicks
    /\ \E m \in measurement_set :
         \E r \in {update(inverter, m)} :
            /\ inverter' = r.self
            /\ outputs' = r.outputs
    /\ UNCHANGED components

Update == UpdateWith(MeasurementSet)

Reset ==
    /\ inverter' = reset(inverter)
    /\ UNCHANGED <<outputs, components>>

Next == Update \/ Reset

Spec == Init /\ [][Next]_vars

\* The inverter in service: reset() is not called, the PV array stays inside
\* its range and the output current inside its limit.  Every tick is fed a
\* sample of the nominal 230 V waveform (its zero crossing or its peak), except
\* that a tick that starts in PowerFlow may be fed a 700 V surge.
NominalMeasurementSet ==
    {m \in MeasurementSet : m.pv_voltage = 30 /\ m.output_current = 0 /\ m.grid_voltage <= 325}

SurgeMeasurementSet ==
    {m \in MeasurementSet : m.pv_voltage = 30 /\ m.output_current = 0 /\ m.grid_voltage > 325}

NominalUpdate == UpdateWith(NominalMeasurementSet)

SurgeUpdate == inverter.state = PowerFlow /\ UpdateWith(SurgeMeasurementSet)

ServiceNext == NominalUpdate \/ SurgeUpdate

ServiceSpec == Init /\ [][ServiceNext]_vars

\* A PV array that delivers no current, and three grid samples after which
\* both SOGI states cancel to zero on the second tick handled in PowerFlow.
CancellingMeasurementSet ==
    {[pv_voltage |-> 30, pv_current |-> 0, grid_voltage |-> v, output_current |-> 0] :
        v \in {100, -84, 51}}

CancellingUpdate == UpdateWith(CancellingMeasurementSet)

CancellingSpec == Init /\ [][CancellingUpdate]_vars

\* One session of the 5 ms configuration, long enough for a fault, its 2 s
\* dwell and a second Startup visit.
MaxRestartTicks == 520

RestartInit ==
    /\ inverter = new(FastConfig)
    /\ outputs = DefaultOutputs
    /\ ComponentsNew

RestartUpdate ==
    /\ Ticks < MaxRestartTicks
    /\ \E m \in NominalMeasurementSet :
         \E r \in {update(inverter, m)} :
            /\ inverter' = r.self
            /\ outputs' = r.outputs
    /\ UNCHANGED components

RestartSpec == RestartInit /\ [][RestartUpdate]_vars

\* As WideConfig, with a 3.5 s PLL settling time: the PLL is stepped three
\* times before a tick in PLLSync can pass the settling check.
SlowSettlingConfig == [WideConfig EXCEPT !.pll_settling_time = 35000]

SettlingInit ==
    /\ inverter = new(SlowSettlingConfig)
    /\ outputs = DefaultOutputs
    /\ ComponentsNew

\* Measurements with a grid sample of at most 325 V.
ModerateMeasurementSet == {m \in MeasurementSet : m.grid_voltage <= 325}

\* Ticks of a settling run: Idle, Startup, four ticks of PLLSync and the tick
\* after them.
MaxSettlingTicks == 107

SettlingUpdate == Ticks < MaxSettlingTicks /\ UpdateWith(ModerateMeasurementSet)

SettlingNext == SettlingUpdate \/ Reset

SettlingSpec == SettlingInit /\ [][SettlingNext]_vars

(***************************************************************************)
(* A stand-alone PLL: constructed for one of the settings, then driven by  *)
(* calculate(), reset() and the gain setters.                              *)
(***************************************************************************)
\* At most MaxCalls calls are made on a component.
MaxCalls == 6

\* Nominal frequency 0.5 Hz sampled at 10 Hz (wn * ts = 0.314) and at 1 Hz
\* (wn * ts = 3.14).
PllSettings == {<<50, 1000>>, <<50, 10000>>}

\* Amplitude of the bounded input samples.
MaxInput == 10

BoundedInputSet == {-MaxInput, MaxInput}

AnyInputSet == BoundedInputSet \cup {NaN, Inf}

\* set_pi_gains(1.0, 10.0) and set_sogi_gain(1.0), set_sogi_gain(2.0).
PiGainSet == {<<1, 10>>}

SogiGainSet == {1000, 2000}

SPLL_set_pi_gains(pll, kp, ki) == [pll EXCEPT !.kp = kp, !.ki = ki]

SPLL_set_sogi_gain(pll, k) == [pll EXCEPT !.k_sogi = k]

\* The largest magnitude the model computes with.
ModelRange == 1900000000

\* A PLL whose next calculate() stays inside the range of the model: the next
\* phase error is at most 27 * (|x1| + |x2| + |input|) for the settings above.
InModelRange(pll) ==
    \/ ~(IsFinite(pll.x1) /\ IsFinite(pll.x2) /\ IsFinite(pll.pi_integrator))
    \/ /\ Abs(pll.pi_integrator) <= ModelRange
       /\ Abs(pll.x1) + Abs(pll.x2) + MaxInput
            <= (ModelRange - Abs(pll.pi_integrator))
                 \div ((pll.kp + pll.ki * TsNum(pll.ts)) * 100 * 27)

PllInit ==
    /\ inverter = new(DefaultConfig)
    /\ outputs = DefaultOutputs
    /\ \E setting \in PllSettings : spll = SPLL_new(setting[1], setting[2])
    /\ spll_pc = "ready"
    /\ spll_op = "new"
    /\ cntl = ControllerPI_new
    /\ tracker = MPPT_new
    /\ calls = 0

\* A call on the PLL: the previous call has returned.
SpllCall ==
    /\ spll_pc = "ready"
    /\ calls < MaxCalls
    /\ calls' = calls + 1
    /\ UNCHANGED <<inverter, outputs, cntl, tracker>>

\* calculate(input): the caller is back when both wrap-around loops exit.
SpllCalculateWith(input_set) ==
    /\ SpllCall
    /\ InModelRange(spll)
    /\ \E input \in input_set : spll' = SPLL_calculate(spll, input)
    /\ spll_pc' = IF wrap_exits(spll'.theta) THEN "ready" ELSE "wrapping"
    /\ spll_op' = "calculate"

SpllCalculate == SpllCalculateWith(AnyInputSet)

SpllReset ==
    /\ SpllCall
    /\ spll' = SPLL_reset(spll)
    /\ spll_op' = "reset"
    /\ UNCHANGED spll_pc

SpllSetPiGains ==
    /\ SpllCall
    /\ \E gains \in PiGainSet : spll' = SPLL_set_pi_gains(spll, gains[1], gains[2])
    /\ spll_op' = "set_pi_gains"
    /\ UNCHANGED spll_pc

SpllSetSogiGain ==
    /\ SpllCall
    /\ \E k \in SogiGainSet : spll' = SPLL_set_sogi_gain(spll, k)
    /\ spll_op' = "set_sogi_gain"
    /\ UNCHANGED spll_pc

PllNext == SpllCalculate \/ SpllReset \/ SpllSetPiGains \/ SpllSetSogiGain

PllSpec == PllInit /\ [][PllNext]_vars

\* The PLL fed bounded samples only.
SpllCalculateBounded == SpllCalculateWith(BoundedInputSet)

BoundedPllNext == SpllCalculateBounded \/ SpllReset \/ SpllSetPiGains \/ SpllSetSogiGain

BoundedPllSpec == PllInit /\ [][BoundedPllNext]_vars

(***************************************************************************)
(* A stand-alone PI controller, driven by calculate(), reset() and the     *)
(* setters.                                                                *)
(***************************************************************************)
\* with_gains(1.0, 0.1), as the saturation test has it, and the gains of the
\* inverter's current controller.
GainSet == {<<10, 1>>, <<CC_KP, CC_KI>>}

\* set_limits(-0.5, 0.5), set_limits(0.0, 0.95), set_limits(0.1, 0.2).
LimitSet == {<<-500, 500>>, <<0, DUTY_MAX>>, <<100, 200>>}

ReferenceSet == {-1000, 0, 1000, NaN, Inf}

FeedbackSet == {0, 500}

PiInit ==
    /\ inverter = new(DefaultConfig)
    /\ outputs = DefaultOutputs
    /\ ComponentsNew

PiCall ==
    /\ calls < MaxCalls
    /\ calls' = calls + 1
    /\ UNCHANGED <<inverter, outputs, spll, spll_pc, spll_op, tracker>>

PiSetGains ==
    /\ PiCall
    /\ \E gains \in GainSet : cntl' = ControllerPI_set_gains(cntl, gains[1], gains[2])

PiSetLimits ==
    /\ PiCall
    /\ \E limits \in LimitSet : cntl' = ControllerPI_set_limits(cntl, limits[1], limits[2])

PiCalculate ==
    /\ PiCall
    /\ \E ref_input \in ReferenceSet, fdbk \in FeedbackSet :
         cntl' = ControllerPI_calculate(cntl, ref_input, fdbk)

PiReset ==
    /\ PiCall
    /\ cntl' = ControllerPI_reset(cntl)

PiNext == PiSetGains \/ PiSetLimits \/ PiCalculate \/ PiReset

PiSpec == PiInit /\ [][PiNext]_vars

(***************************************************************************)
(* A stand-alone MPPT tracker: configured, then driven by calculate().     *)
(***************************************************************************)
\* Output limits of 15 V and 45 V, as the inverter sets them, and of 0 V and
\* 10 V; steps of 0.5 V and 20 V.
VOutMinSet == {0, 150}

VOutMaxSet == {100, 450}

StepSizeSet == {MPPT_STEP, 200}

\* PV samples (current, voltage) of rising and falling power.
PvSampleSet == {<<5, 30>>, <<5, 31>>, <<6, 29>>, <<4, 30>>}

MPPT_get_mppt_v_out(t) == t.mppt_v_out

MPPT_set_mppt_v_out_max(t, value) == [t EXCEPT !.mppt_v_out_max = value]

MPPT_set_mppt_v_out_min(t, value) == [t EXCEPT !.mppt_v_out_min = value]

MPPT_set_step_size(t, value) == [t EXCEPT !.step_size = value]

MpptInit ==
    /\ inverter = new(DefaultConfig)
    /\ outputs = DefaultOutputs
    /\ ComponentsNew

MpptCall ==
    /\ calls < MaxCalls
    /\ calls' = calls + 1
    /\ UNCHANGED <<inverter, outputs, spll, spll_pc, spll_op, cntl>>

\* The setters are called before the first calculate().
MpptSetVOutMax ==
    /\ MpptCall
    /\ tracker.mppt_first
    /\ \E value \in VOutMaxSet : tracker' = MPPT_set_mppt_v_out_max(tracker, value)

MpptSetVOutMin ==
    /\ MpptCall
    /\ tracker.mppt_first
    /\ \E value \in VOutMinSet : tracker' = MPPT_set_mppt_v_out_min(tracker, value)

MpptSetStepSize ==
    /\ MpptCall
    /\ tracker.mppt_first
    /\ \E value \in StepSizeSet : tracker' = MPPT_set_step_size(tracker, value)

MpptCalculate ==
    /\ MpptCall
    /\ \E sample \in PvSampleSet : tracker' = MPPT_calculate(tracker, sample[1], sample[2])

MpptNext == MpptSetVOutMax \/ MpptSetVOutMin \/ MpptSetStepSize \/ MpptCalculate

MpptSpec == MpptInit /\ [][MpptNext]_vars

(***************************************************************************)
(* Properties.                                                             *)
(***************************************************************************)
\* A step of update(): the only operation that advances time_elapsed.
IsUpdate == inverter'.time_elapsed # inverter.time_elapsed

\* state_timer as the handlers of this tick see it.
TickTimer == inverter.state_timer + inverter.config.sample_time

\* Some transition has happened: every transition restarts state_timer, and
\* nothing restarts time_elapsed.
HasLeftIdle == inverter.state # Idle \/ inverter.state_timer < inverter.time_elapsed

\* C1: from construction with the default configuration, fed a sample of the
\* nominal grid waveform and an in-range PV voltage on every update(), the
\* state leaves Idle for Startup.  Stated for the run of MaxTicks updates of
\* ServiceSpec, in which DefaultConfig is never fed anything but such samples.
C1_LeavesIdle ==
    (inverter.config = DefaultConfig /\ Ticks = MaxTicks) => HasLeftIdle

\* With the default configuration the state is Idle after every operation: the
\* peak estimate is 0 until the PLL runs, and the PLL runs only past Startup.
DefaultConfigStaysIdle == inverter.config = DefaultConfig => inverter.state = Idle

\* C2: the outputs update() returns are those of the state it leaves: the relay
\* is closed exactly in PLLSync and PowerFlow, the duty cycle is 0 outside
\* PowerFlow, led_power is lit exactly in Startup, PLLSync and PowerFlow, and
\* led_fault exactly in Fault(_), the tick that detects a fault included.
C2_OutputsFollowState ==
    [][IsUpdate =>
         /\ outputs'.grid_relay = (inverter'.state \in {PLLSync, PowerFlow})
         /\ (inverter'.state # PowerFlow => outputs'.duty_cycle = 0)
         /\ outputs'.led_power = (inverter'.state \in {Startup, PLLSync, PowerFlow})
         /\ outputs'.led_fault = (inverter'.state.tag = "Fault")]_vars

\* The tick that detected a fault in PowerFlow has just returned.
C2_FaultDetected ==
    /\ inverter.state.tag = "Fault"
    /\ inverter.state.fault # "GridStartupFault"
    /\ inverter.state_timer = 0
    /\ outputs = [duty_cycle |-> 0, grid_relay |-> FALSE, led_power |-> FALSE, led_fault |-> TRUE]

\* C3: update() changes the state only along Idle -> Startup, Startup -> PLLSync,
\* Startup -> Fault(GridStartupFault), PLLSync -> PowerFlow, PowerFlow -> Fault(k)
\* with k # GridStartupFault, and Fault(k) -> Idle; reset() leaves Idle.
C3_Transitions ==
    [][IF IsUpdate
       THEN \/ inverter'.state = inverter.state
            \/ inverter.state = Idle /\ inverter'.state = Startup
            \/ inverter.state = Startup
                 /\ inverter'.state \in {PLLSync, Fault("GridStartupFault")}
            \/ inverter.state = PLLSync /\ inverter'.state = PowerFlow
            \/ inverter.state = PowerFlow
                 /\ inverter'.state \in {Fault(k) : k \in FaultType \ {"GridStartupFault"}}
            \/ inverter.state.tag = "Fault" /\ inverter'.state = Idle
       ELSE inverter'.state = Idle]_vars

\* update() has just brought an inverter that faulted in PowerFlow back to Idle.
C3_RecoveredToIdle ==
    /\ inverter.state = Idle
    /\ inverter.state_timer = 0
    /\ inverter.fault_counter > 0
    /\ inverter.startup_counter > STARTUP_SAMPLES

\* C4: a tick that starts in PowerFlow enters the fault of the first failing
\* check in the order grid voltage, grid frequency, PV voltage, islanding,
\* output current, and stays in PowerFlow when none fails.
C4_FaultPriority ==
    [][(IsUpdate /\ inverter.state = PowerFlow) =>
         inverter'.state =
             IF ~inverter'.grid_voltage_ok
             THEN IF grid_v_rms(inverter) > v_max(inverter)
                  THEN Fault("GridOverVoltage")
                  ELSE Fault("GridUnderVoltage")
             ELSE IF ~inverter'.grid_frequency_ok
             THEN Fault("GridFrequencyError")
             ELSE IF ~inverter'.pv_voltage_ok
             THEN IF inverter'.measurements.pv_voltage > inverter.config.pv_voltage_max
                  THEN Fault("PVOverVoltage")
                  ELSE Fault("PVUnderVoltage")
             ELSE IF ~inverter'.anti_islanding_ok
             THEN Fault("Islanding")
             ELSE IF Abs(inverter'.measurements.output_current) > inverter.config.max_output_current
             THEN Fault("OverCurrent")
             ELSE PowerFlow]_vars

\* A grid over-voltage reported on a tick whose PV voltage and output current
\* were out of range as well.
C4_SeveralViolations ==
    /\ inverter.state = Fault("GridOverVoltage")
    /\ inverter.state_timer = 0
    /\ ~inverter.pv_voltage_ok
    /\ Abs(inverter.measurements.output_current) > inverter.config.max_output_current

\* C5: while state_timer has not exceeded 2.0 s, update() leaves Fault(k) as
\* it is, whatever the measurements and the flags.
C5_FaultLatched ==
    [][(IsUpdate /\ inverter.state.tag = "Fault" /\ TickTimer <= FAULT_DWELL)
          => inverter'.state = inverter.state]_vars

\* A PV fault whose cause has cleared, still latched at 2.0 s.
C5_ClearedButLatched ==
    /\ inverter.state \in {Fault("PVOverVoltage"), Fault("PVUnderVoltage")}
    /\ inverter.pv_voltage_ok
    /\ inverter.state_timer = FAULT_DWELL

\* C6: update() takes a grid-voltage fault to Idle only on a tick where
\* grid_voltage_ok holds, a frequency fault only where grid_frequency_ok holds,
\* a PV fault only where pv_voltage_ok holds.
C6_RootCauseRecovery ==
    [][(IsUpdate /\ inverter.state.tag = "Fault" /\ inverter'.state = Idle) =>
         /\ inverter.state.fault \in {"GridOverVoltage", "GridUnderVoltage"}
               => inverter'.grid_voltage_ok
         /\ inverter.state.fault = "GridFrequencyError" => inverter'.grid_frequency_ok
         /\ inverter.state.fault \in {"PVOverVoltage", "PVUnderVoltage"}
               => inverter'.pv_voltage_ok]_vars

\* The dwell has expired and the fault is held by its cause.
C6_HeldPastDwell ==
    /\ inverter.state.tag = "Fault"
    /\ inverter.state_timer > FAULT_DWELL + inverter.config.sample_time
    /\ ~can_recover(inverter)

GridFaults == {Fault("GridOverVoltage"), Fault("GridUnderVoltage"), Fault("GridFrequencyError")}

\* C7: a grid fault clears once the grid is back in its bands.  In ServiceSpec
\* every tick after the one that detected the fault is fed the nominal
\* waveform; stated with a deadline of one more dwell time after the dwell.
C7_GridFaultRecovers ==
    inverter.state \in GridFaults => inverter.state_timer <= 2 * FAULT_DWELL

\* No update() leaves a grid fault: in Fault the PLL does not run, and the
\* flags are computed from the estimates the PLL left behind.
GridFaultNeverRecovers ==
    [][(IsUpdate /\ inverter.state \in GridFaults) => inverter'.state = inverter.state]_vars

\* C8 as stated: on every tick with grid_voltage_ok and pv_voltage_ok, Idle
\* moves to Startup, Startup counts the tick and moves to PLLSync when the count
\* exceeds 100, and PLLSync past pll_settling_time with grid_frequency_ok moves
\* to PowerFlow.
C8_Progression ==
    [][(IsUpdate /\ inverter'.grid_voltage_ok /\ inverter'.pv_voltage_ok) =>
         /\ inverter.state = Idle => inverter'.state = Startup
         /\ inverter.state = Startup =>
               /\ inverter'.startup_counter =
                      IF TickTimer < FIRST_ENTRY_TIME THEN 1 ELSE inverter.startup_counter + 1
               /\ inverter'.state =
                      IF inverter'.startup_counter > STARTUP_SAMPLES THEN PLLSync ELSE Startup
         /\ (inverter.state = PLLSync /\ TickTimer > inverter.config.pll_settling_time
               /\ inverter'.grid_frequency_ok) => inverter'.state = PowerFlow]_vars

\* C8 (amended): the same progression on every tick with grid_voltage_ok,
\* grid_frequency_ok and pv_voltage_ok.
C8_ProgressionGivenFrequency ==
    [][(IsUpdate /\ inverter'.grid_voltage_ok /\ inverter'.grid_frequency_ok
          /\ inverter'.pv_voltage_ok) =>
         /\ inverter.state = Idle => inverter'.state = Startup
         /\ inverter.state = Startup =>
               /\ inverter'.startup_counter =
                      IF TickTimer < FIRST_ENTRY_TIME THEN 1 ELSE inverter.startup_counter + 1
               /\ inverter'.state =
                      IF inverter'.startup_counter > STARTUP_SAMPLES THEN PLLSync ELSE Startup
         /\ (inverter.state = PLLSync /\ TickTimer > inverter.config.pll_settling_time)
               => inverter'.state = PowerFlow]_vars

\* PowerFlow just entered through Startup and PLLSync, with no fault on the way.
C8_ReachedPowerFlow ==
    /\ inverter.state = PowerFlow
    /\ inverter.state_timer = 0
    /\ inverter.startup_counter > STARTUP_SAMPLES
    /\ inverter.fault_counter = 0
    /\ inverter.grid_voltage_ok /\ inverter.grid_frequency_ok /\ inverter.pv_voltage_ok

\* C9: a tick in Startup that sees state_timer > 1.0 s and leaves the startup
\* counter at 100 or less ends in Fault(GridStartupFault).
C9_StartupTimeout ==
    [][(IsUpdate /\ inverter.state = Startup /\ TickTimer > STARTUP_TIMEOUT
          /\ inverter'.startup_counter <= STARTUP_SAMPLES)
          => inverter'.state = Fault("GridStartupFault")]_vars

\* C10: after reset(), get_state() is Idle, get_grid_frequency() is the nominal
\* frequency, the counters and state_timer are 0, and the configuration is as
\* it was.
C10_ResetPostcondition ==
    [][~IsUpdate =>
         /\ get_state(inverter') = Idle
         /\ get_grid_frequency(inverter') = inverter'.config.grid_frequency_nominal
         /\ inverter'.startup_counter = 0
         /\ get_diagnostics(inverter')[5] = 0
         /\ inverter'.state_timer = 0
         /\ inverter'.config = inverter.config]_vars

\* reset() leaves the cached grid_frequency as it finds it; the rest of the
\* postcondition holds.
ResetKeepsGridFrequency ==
    [][~IsUpdate =>
         /\ get_state(inverter') = Idle
         /\ get_grid_frequency(inverter') = get_grid_frequency(inverter)
         /\ inverter'.startup_counter = 0
         /\ get_diagnostics(inverter')[5] = 0
         /\ inverter'.state_timer = 0
         /\ inverter'.config = inverter.config]_vars

\* C11: reset() is idempotent: from every reachable state, the complete
\* inverter state after reset(); reset() equals the state after one reset().
C11_ResetIdempotent == reset(reset(inverter)) = reset(inverter)

\* A state in PowerFlow whose PLL and current controller hold non-zero values,
\* all of which reset() clears.
C11_ResetClearsPowerFlow ==
    /\ inverter.state = PowerFlow
    /\ inverter.current_controller.ui # 0
    /\ inverter.pll.x1 # 0 /\ inverter.pll.pi_integrator # 0
    /\ inverter.startup_counter > 0
    /\ reset(inverter) # inverter

C13_ReferenceWithinLimit ==
    [][(IsUpdate /\ inverter.state = PowerFlow /\ inverter'.state = PowerFlow)
          => /\ inverter'.current_reference # NaN
             /\ inverter'.current_reference <= inverter'.config.max_output_current * 1000
             /\ inverter'.current_reference >= -(inverter'.config.max_output_current * 1000)]_vars

C15_PhaseInRange ==
    spll_pc = "ready" => (IsFinite(spll.theta) /\ 0 <= spll.theta /\ spll.theta < TWO_PI)

\* C16: every call of SPLL::calculate returns: both wrap-around loops exit.
C16_CalculateReturns == spll_pc = "ready"

\* Largest SOGI state magnitude taken as bounded: 100 times the input amplitude.
SogiBound == 100 * MaxInput

\* C17: with bounded input samples the SOGI states x1 and x2 stay bounded.
C17_SogiBounded ==
    /\ IsFinite(spll.x1) /\ Abs(spll.x1) <= SogiBound
    /\ IsFinite(spll.x2) /\ Abs(spll.x2) <= SogiBound

\* C18: with mppt_v_out_min <= mppt_v_out_max set before tracking, every
\* get_mppt_v_out() after one or more calculate() calls lies in
\* [mppt_v_out_min, mppt_v_out_max].
C18_VOutWithinLimits ==
    (~tracker.mppt_first /\ tracker.mppt_v_out_min <= tracker.mppt_v_out_max)
        => /\ MPPT_get_mppt_v_out(tracker) >= tracker.mppt_v_out_min
           /\ MPPT_get_mppt_v_out(tracker) <= tracker.mppt_v_out_max

\* A step of ControllerPI::calculate.
IsPiCalculate ==
    \E ref_input \in ReferenceSet, fdbk \in FeedbackSet :
        cntl' = ControllerPI_calculate(cntl, ref_input, fdbk)

\* C19: with u_min <= u_max, the value every calculate() returns, which is the
\* value of get_output() after it, lies in [u_min, u_max].
C19_OutputWithinLimits ==
    [][(IsPiCalculate /\ cntl.u_min <= cntl.u_max)
          => /\ ControllerPI_get_output(cntl') # NaN
             /\ ControllerPI_get_output(cntl') >= cntl'.u_min
             /\ ControllerPI_get_output(cntl') <= cntl'.u_max]_vars

\* The controller with limits set, after a calculate() whose unsaturated
\* output v1 was outside them, and after one whose v1 was NaN.
C19_Saturated ==
    /\ cntl.u_max < F32_MAX
    /\ cntl.u_min <= cntl.u_max
    /\ \/ cntl.v1 = NaN
       \/ IsFinite(cntl.v1) /\ cntl.v1 < cntl.u_min
    /\ cntl.out \in {cntl.u_min, cntl.u_max}

\* C20: a Startup visit counts from 0: its first tick leaves startup_counter
\* at 1 at most, and a tick that moves from Startup to PLLSync is at least the
\* 101st tick of the visit.
C20_StartupCountsFromZero ==
    [][(IsUpdate /\ inverter.state = Startup)
          => /\ inverter.state_timer = 0 => inverter'.startup_counter <= 1
             /\ inverter'.state = PLLSync
                  => TickTimer >= (STARTUP_SAMPLES + 1) * inverter.config.sample_time]_vars

\* C21: on every tick handled in PowerFlow the divisor of i_peak, the
\* grid_voltage_peak computed on that tick, is not zero.
C21_PeakNonzero ==
    [][(IsUpdate /\ inverter.state = PowerFlow /\ inverter'.state = PowerFlow)
          => inverter'.grid_voltage_peak # 0]_vars

\* A tick handled in PowerFlow on which the MPPT is run: the only place where
\* mppt_timer is set back to 0.
IsMpptRun ==
    /\ IsUpdate
    /\ inverter.state = PowerFlow /\ inverter'.state = PowerFlow
    /\ inverter'.mppt_timer = 0

\* C22: two MPPT invocations made by update() are at least mppt_period apart:
\* a run of the MPPT in PowerFlow comes at least mppt_period after the seeding
\* call of the tick that entered PowerFlow, and after the previous run.
C22_MpptSubSampled ==
    [][IsMpptRun => /\ TickTimer >= inverter.config.mppt_period
                    /\ inverter.mppt_timer + inverter.config.sample_time
                         >= inverter.config.mppt_period]_vars

\* C23: PowerFlow is entered only by a tick handled in PLLSync whose
\* state_timer exceeds pll_settling_time and whose grid_frequency_ok is true;
\* that tick steps the MPPT once with its PV current and voltage and sets
\* voltage_reference to its pv_voltage.  A tick handled in PLLSync ends in
\* PLLSync or in PowerFlow.
C23_PllSyncExit ==
    [][IsUpdate =>
         /\ (inverter.state # PowerFlow /\ inverter'.state = PowerFlow) =>
               /\ inverter.state = PLLSync
               /\ TickTimer > inverter.config.pll_settling_time
               /\ inverter'.grid_frequency_ok
               /\ inverter'.mppt = MPPT_calculate(inverter.mppt,
                                                  inverter'.measurements.pv_current,
                                                  inverter'.measurements.pv_voltage)
               /\ inverter'.voltage_reference = inverter'.measurements.pv_voltage * 10
         /\ inverter.state = PLLSync => inverter'.state \in {PLLSync, PowerFlow}]_vars

\* PowerFlow just entered, the MPPT seeded with a nonzero PV sample and the
\* voltage reference at the PV voltage of the tick.
C23_Seeded ==
    /\ inverter.state = PowerFlow
    /\ inverter.state_timer = 0
    /\ ~inverter.mppt.mppt_first
    /\ inverter.measurements.pv_voltage > 0
    /\ inverter.voltage_reference = inverter.measurements.pv_voltage * 10

\* The fault types that state_fault() recovers from whatever the flags.
UnconditionalFaults == {Fault("OverCurrent"), Fault("Islanding"), Fault("GridStartupFault")}

\* C24: a tick handled in Fault(OverCurrent), Fault(Islanding) or
\* Fault(GridStartupFault) ends in Idle when its state_timer exceeds 2.0 s and
\* in the same fault state otherwise, whatever the flags and measurements: the
\* state becomes Idle on exactly the first tick past the dwell time.
C24_UnconditionalRecovery ==
    [][(IsUpdate /\ inverter.state \in UnconditionalFaults) =>
         inverter'.state = IF TickTimer > FAULT_DWELL THEN Idle ELSE inverter.state]_vars

\* Idle just entered from a fault state with the PV voltage and the grid
\* frequency out of their bands.
C24_RecoveredDespiteFlags ==
    /\ inverter.state = Idle
    /\ inverter.state_timer = 0
    /\ inverter.fault_counter > 0
    /\ ~inverter.pv_voltage_ok
    /\ ~inverter.grid_frequency_ok

\* C25: after every update() state_timer is 0 if the state changed during the
\* tick and the previous value plus sample_time otherwise; reset() sets it to 0.
C25_StateTimer ==
    [][IF IsUpdate
       THEN inverter'.state_timer = IF inverter'.state # inverter.state THEN 0 ELSE TickTimer
       ELSE inverter'.state_timer = 0]_vars

\* Idle entered from a fault state one tick ago: the timer was set to 0 by the
\* transition and has counted the tick that stayed in Idle.
C25_TimerRestarted ==
    /\ inverter.state = Idle
    /\ inverter.fault_counter > 0
    /\ inverter.state_timer = inverter.config.sample_time
    /\ inverter.state_timer < inverter.time_elapsed

\* C26: fault_counter counts the entries into a fault state: an update() adds
\* exactly 1 when it enters Fault(k) and leaves the counter unchanged
\* otherwise; reset() sets it to 0.
C26_FaultCounter ==
    [][IF IsUpdate
       THEN inverter'.fault_counter =
                IF inverter.state.tag # "Fault" /\ inverter'.state.tag = "Fault"
                THEN inverter.fault_counter + 1
                ELSE inverter.fault_counter
       ELSE inverter'.fault_counter = 0]_vars

\* A fault state entered for the second time since construction or reset().
C26_SecondFault ==
    /\ inverter.state.tag = "Fault"
    /\ inverter.state_timer = 0
    /\ inverter.fault_counter = 2

\* A PLL freshly constructed with the nominal frequency and sample time of pll,
\* on which the gain setters were called with the gains of pll.
FreshWithGains(pll) ==
    SPLL_set_sogi_gain(SPLL_set_pi_gains(SPLL_new(pll.nominal_frequency, pll.ts),
                                         pll.kp, pll.ki),
                       pll.k_sogi)

\* C27: SPLL::reset() zeroes x1, x2, theta, pi_integrator, phase_error and
\* delta_omega, restores omega to wn and frequency to the nominal frequency and
\* leaves kp, ki, k_sogi, wn and ts unchanged: the PLL after reset() equals a
\* freshly constructed PLL with the same gains set.
C27_ResetRestores ==
    [][spll_op' = "reset" =>
         /\ spll'.x1 = 0 /\ spll'.x2 = 0 /\ spll'.theta = 0
         /\ spll'.pi_integrator = 0 /\ spll'.phase_error = 0 /\ spll'.delta_omega = 0
         /\ spll'.omega = spll.wn
         /\ spll'.frequency = spll.nominal_frequency
         /\ spll'.kp = spll.kp /\ spll'.ki = spll.ki /\ spll'.k_sogi = spll.k_sogi
         /\ spll'.wn = spll.wn /\ spll'.ts = spll.ts
         /\ spll' = FreshWithGains(spll)]_vars

\* A PLL with both gains changed from their defaults, just reset.
C27_ResetWithGains ==
    /\ spll_op = "reset"
    /\ spll.kp # PLL_KP
    /\ spll.k_sogi # K_SOGI
    /\ spll = FreshWithGains(spll)

\* C28: the cached grid_voltage_peak and grid_frequency change only on ticks
\* handled in PLLSync or in PowerFlow: an update() handled in Idle, Startup or
\* a fault state (a tick on which PowerFlow faults included) and reset() leave
\* both unchanged.
C28_EstimatesFrame ==
    [][(\/ inverter'.grid_voltage_peak # inverter.grid_voltage_peak
        \/ inverter'.grid_frequency # inverter.grid_frequency)
          => /\ IsUpdate
             /\ \/ inverter.state = PLLSync
                \/ inverter.state = PowerFlow /\ inverter'.state = PowerFlow]_vars

\* A fault state that has handled at least one tick, with the estimates of the
\* last PowerFlow tick still cached.
C28_EstimatesKeptInFault ==
    /\ inverter.state.tag = "Fault"
    /\ inverter.state_timer > 0
    /\ inverter.grid_voltage_peak > 0
    /\ inverter.grid_frequency # 0

\* A configuration whose lower voltage limit, as a peak value, is above the
\* anti-islanding threshold: grid_voltage_nominal * (1 - tolerance) * sqrt(2) > 50.
LimitAboveIslandingPeak(config) ==
    config.grid_voltage_nominal * (100 - config.grid_voltage_tolerance) * 1414
        > ISLANDING_PEAK * 100 * 1000

SingleTransition(from, to) ==
    \/ from = Idle /\ to = Startup
    \/ from = Startup /\ to \in {PLLSync, Fault("GridStartupFault")}
    \/ from = PLLSync /\ to = PowerFlow
    \/ from = PowerFlow /\ to.tag = "Fault"
    \/ from.tag = "Fault" /\ to = Idle

\* C30: an update() changes the state at most once, and a tick on which
\* check_protections moves PowerFlow to a fault state does not run the
\* PowerFlow handler: the PLL and the MPPT are not stepped, the MPPT timer is
\* not restarted, and grid_voltage_peak, grid_frequency, power_limit,
\* current_reference and voltage_reference keep their values.
C30_FaultTickFrame ==
    [][IsUpdate =>
         /\ inverter'.state # inverter.state
               => SingleTransition(inverter.state, inverter'.state)
         /\ (inverter.state = PowerFlow /\ inverter'.state # PowerFlow) =>
               /\ inverter'.state.tag = "Fault"
               /\ inverter'.state_timer = 0
               /\ inverter'.pll = inverter.pll
               /\ inverter'.mppt = inverter.mppt
               /\ inverter'.mppt_timer = inverter.mppt_timer + inverter.config.sample_time
               /\ inverter'.grid_voltage_peak = inverter.grid_voltage_peak
               /\ inverter'.grid_frequency = inverter.grid_frequency
               /\ inverter'.power_limit = inverter.power_limit
               /\ inverter'.current_reference = inverter.current_reference
               /\ inverter'.voltage_reference = inverter.voltage_reference]_vars

\* Fault(PVUnderVoltage) just entered on a tick with a PV voltage of 10 V and a
\* grid sample of 325 V, the power limit still that of the 30 V, 5 A tick before.
C30_FaultedWithoutHandler ==
    /\ inverter.state = Fault("PVUnderVoltage")
    /\ inverter.state_timer = 0
    /\ inverter.measurements.pv_voltage = 10
    /\ inverter.measurements.grid_voltage = 325
    /\ inverter.power_limit = RDiv(30 * 5 * EFFICIENCY, 100)

====
